---- MODULE Spec2Model ----
(***************************************************************************)
(* Model of the PocketFlow template: the flow interpreter                  *)
(* (src/src/flows/base.py) running nodes with the three-phase lifecycle    *)
(* (src/src/app/pocketflow/nodes/base.py) over a shared store.             *)
(*                                                                         *)
(* A store is a Python dict: a function whose DOMAIN is the set of keys    *)
(* present.  Nodes mutate the one store object in place; what a phase      *)
(* returns (that object, or None) is tracked beside it.  Exceptions are    *)
(* records [cls, msg]; every exception raised here is a subclass of        *)
(* Exception.  Messages are sequences of string tokens, built the way the  *)
(* f-strings of the source build them.                                     *)
(***************************************************************************)
EXTENDS Integers, Sequences, FiniteSets, TLC

VARIABLES
    flow_definition,  \* the dict handed to BaseFlow(...): id -> FlowNode
    name,             \* self.name
    flow_state,       \* "new", "constructed", or "rejected" (__init__ raised)
    ctor_error,       \* message of the ValueError __init__ raised
    drawing,          \* history: what the last visualize() call returned
    pc,               \* position of the run call: "idle", "loop", "exit"
                      \* (after a break), "done" (returned), "raised"
    initial_store,    \* argument of run
    max_steps,        \* argument of run
    store,            \* local variable store of run
    current_node_id,  \* local variable of run
    steps,            \* local variable of run
    exit_cause,       \* history: how the loop of run was left
    visits,           \* history: ids whose loop iteration ran in this run
    node_store,       \* history: the store as the last node.run left it
    phases,           \* history: phases invoked by the last node.run
    node_uses,        \* history: run() calls the node object of the last
                      \* step has received since it was created
    propagated        \* exception that left run, NoExc if none

\* one node run on its own: node.run(store) on a constructed node
VARIABLES
    node_cls,         \* class of the node
    node_arg,         \* the store handed to node.run
    node_result,      \* what node.run did: store, escaped exception, phases
    node_pc           \* "ready", "returned" or "raised"

\* runs of flows built from one definition, interleaved step by step
VARIABLES
    objects,          \* the flow objects: object id -> self.name
    run_calls,        \* the run calls: their position, flow object,
                      \* arguments and returned store
    frames            \* the local variables store, current_node_id and
                      \* steps of the run calls

\* the daemon's registry
VARIABLES
    flows,            \* self.flows: the (name, flow) items in dict order
    history,          \* history: the add_flow and remove_flow calls made
    returned          \* the last call and what it returned

\* the daemon's lifecycle
VARIABLES
    running,          \* self._running
    task,             \* self._task: 0 for None, else the number of a task
    tasks,            \* the heartbeat tasks created so far, by number:
                      \* the state of each
    coros,            \* the start() and stop() calls of the callers: where
                      \* each is suspended, "idle" when none is in flight
    init_count,       \* history: how often _initialize_flows was entered
    init_failures,    \* history: how often _initialize_flows raised
    last_event        \* history: the last call or return of start()/stop()

flowVars == <<flow_definition, name, flow_state, ctor_error, drawing>>

runVars == <<pc, initial_store, max_steps, store, current_node_id, steps,
             exit_cause, visits, node_store, phases, node_uses,
             propagated>>

nodeVars == <<node_cls, node_arg, node_result, node_pc>>

concVars == <<objects, run_calls, frames>>

daemonVars == <<flows, history, returned>>

lifeVars == <<running, task, tasks, coros, init_count, init_failures,
              last_event>>

\* the variables the flow specification leaves alone
otherVars == <<nodeVars, concVars, daemonVars, lifeVars>>

vars == <<flowVars, runVars, otherVars>>

----------------------------------------------------------------------------
(* Bounds of the model *)

\* largest max_steps argument passed to run (the smallest is -1)
MaxSteps == 3

\* largest number of transitions in a whole flow definition
MaxEdges == 2

----------------------------------------------------------------------------
(* Python dict helpers *)

EmptyDict == <<>>

Has(d, k) == k \in DOMAIN d

\* d.get(k, dflt)
Get(d, k, dflt) == IF k \in DOMAIN d THEN d[k] ELSE dflt

\* d[k] = v
Put(d, k, v) == [x \in (DOMAIN d) \cup {k} |-> IF x = k THEN v ELSE d[x]]

\* str(n) for an int, one token per character
Digit(n) ==
    CASE n = 0 -> "0" [] n = 1 -> "1" [] n = 2 -> "2" [] n = 3 -> "3"
      [] n = 4 -> "4" [] n = 5 -> "5" [] n = 6 -> "6" [] n = 7 -> "7"
      [] n = 8 -> "8" [] n = 9 -> "9"

RECURSIVE NatStr(_)
NatStr(n) == IF n < 10 THEN <<Digit(n)>>
             ELSE NatStr(n \div 10) \o <<Digit(n % 10)>>

IntStr(n) == IF n < 0 THEN <<"-">> \o NatStr(-n) ELSE NatStr(n)

----------------------------------------------------------------------------
(* Flow definitions *)

\* node ids a definition may use as keys
NodeIds == {"start", "a"}

\* transition targets: keys, the terminal id, and an id that is never a key
Targets == NodeIds \cup {"end", "ghost"}

\* action keys a transition table may carry
TableKeys == {"default", "error", "loop"}

\* node classes a FlowNode may be bound to
NodeClasses == {"CustomActionNode", "ErrorNode", "GreetingNode", "LoopNode",
                "EchoNode", "BaseNode", "PassNode"}

\* FlowNode(node_class, transitions)
FlowNode(node_class, transitions) ==
    [node_class |-> node_class, transitions |-> transitions]

\* the definition with keys K, classes c, and the edges E with targets t
MakeDefinition(K, c, E, t) ==
    [n \in K |->
        FlowNode(c[n], [a \in {e[2] : e \in {x \in E : x[1] = n}} |-> t[<<n, a>>]])]

\* name argument of the BaseFlow constructor ("" stands for None)
NameArgs == {"ErrorTestFlow"}

\* name or self.__class__.__name__
FlowName(arg) == IF arg = "" THEN "BaseFlow" ELSE arg

\* _validate_flow checking the transition targets of the start node only
ValidateFlow_StartTableOnly(def) ==
    IF "start" \notin DOMAIN def
    THEN {<<"Flow must have a 'start' node">>}
    ELSE LET all_node_ids == (DOMAIN def) \cup {"end"}
         IN  {<<"Node '", "start", "' has transition '", action,
                "' pointing to unknown node '",
                def["start"].transitions[action], "'">> :
                  action \in {a \in DOMAIN def["start"].transitions :
                     def["start"].transitions[a] \notin all_node_ids}}

\* _validate_flow without the check of the transition targets
ValidateFlow_StartOnly(def) ==
    IF "start" \notin DOMAIN def
    THEN {<<"Flow must have a 'start' node">>}
    ELSE {}

\* _validate_flow without all_node_ids.add("end")
ValidateFlow_EndUnknown(def) ==
    IF "start" \notin DOMAIN def
    THEN {<<"Flow must have a 'start' node">>}
    ELSE UNION {{<<"Node '", node_id, "' has transition '", action,
                   "' pointing to unknown node '",
                   def[node_id].transitions[action], "'">> :
                     action \in {a \in DOMAIN def[node_id].transitions :
                        def[node_id].transitions[a] \notin DOMAIN def}} :
                 node_id \in DOMAIN def}

\* BaseFlow._validate_flow: the ValueError messages it can raise for a
\* definition; the empty set when the definition is accepted.  With several
\* unknown targets the one reported is the first in dict order, which the
\* unordered definition leaves open.
ValidateFlow(def) ==
    IF "start" \notin DOMAIN def
    THEN {<<"Flow must have a 'start' node">>}
    ELSE LET all_node_ids == (DOMAIN def) \cup {"end"}
         IN  UNION {{<<"Node '", node_id, "' has transition '", action,
                       "' pointing to unknown node '",
                       def[node_id].transitions[action], "'">> :
                         action \in {a \in DOMAIN def[node_id].transitions :
                            def[node_id].transitions[a] \notin all_node_ids}} :
                     node_id \in DOMAIN def}

----------------------------------------------------------------------------
(* Nodes *)

\* an exception object: its class and str(e)
Exc(cls, msg) == [cls |-> cls, msg |-> msg]

NoExc == Exc("", <<>>)

\* classes derived from Exception, the ones "except Exception" catches
ExceptionClasses == {"RuntimeError", "TypeError", "AttributeError"}

\* what a phase did: the store object after its in-place writes, and whether
\* it returned that object ("store"), returned None ("none") or raised
Returned(d) == [d |-> d, kind |-> "store", exc |-> NoExc]
ReturnedNone(d) == [d |-> d, kind |-> "none", exc |-> NoExc]
Raised(d, e) == [d |-> d, kind |-> "raise", exc |-> e]

\* str.strip().title() on the names the model uses
Title(s) == CASE s = "ada" -> "Ada" [] OTHER -> s

\* ValidationMixin.validate_required_fields: the error message, <<>> if valid
validate_required_fields(d, required_fields) ==
    LET missing_fields == {f \in required_fields : f \notin DOMAIN d}
    IN  IF missing_fields # {}
        THEN <<"Missing required fields: ">>
               \o <<CHOOSE f \in missing_fields : TRUE>>
        ELSE <<>>

\* the node's name: node_class() is called without a name, so it is the
\* class name
NodeName(cls) == cls

\* an interpreter that keeps one node object per node id and uses it again
\* when the walk comes back to the id: the object has already been run once
\* for every earlier visit
NewNode_Cached(cls, node_id, visited) ==
    [cls |-> cls,
     runs |-> Cardinality({i \in 1 .. Len(visited) : visited[i] = node_id})]

\* node = node_config.node_class(): a new object of the class bound to the
\* id, on which run has not been called, whatever was visited before
NewNode(cls, node_id, visited) == [cls |-> cls, runs |-> 0]

\* node_class(): BaseNode is abstract and cannot be instantiated
Instantiate(cls) ==
    IF cls = "BaseNode"
    THEN Exc("TypeError", <<"Can't instantiate abstract class BaseNode with abstract method exec">>)
    ELSE NoExc

\* BaseNode.prep and BaseNode.post: hand the store back
BaseNode_prep(d) == Returned(d)
BaseNode_post(d) == Returned(d)

\* the body of the abstract BaseNode.exec is "pass": it returns None
BaseNode_exec(d) == ReturnedNone(d)

\* GreetingNode.prep
GreetingNode_prep(d) ==
    LET error == validate_required_fields(d, {"name"})
    IN  IF error # <<>>
        THEN Returned(Put(Put(d, "action", "error"), "error", error))
        ELSE Returned(Put(d, "name", Title(d["name"])))

\* GreetingNode.exec, with no time_of_day in the store
GreetingNode_exec(d) ==
    IF Get(d, "action", "") = "error"
    THEN Returned(d)
    ELSE Returned(Put(Put(d, "greeting", <<"Hello, ", d["name"], "!">>),
                      "action", "success"))

\* GreetingNode.post; the length entry of the metadata is not tracked
GreetingNode_post(d) ==
    IF Get(d, "action", "") = "success"
    THEN Returned(Put(d, "greeting_metadata",
                      [personalized |-> TRUE,
                       time_aware |-> Has(d, "time_of_day")]))
    ELSE Returned(d)

\* ErrorNode.exec of the flow tests
ErrorNode_exec(d) == Raised(d, Exc("RuntimeError", <<"Test error">>))

\* LoopNode.exec of the flow tests
LoopNode_exec(d) == Returned(Put(d, "action", "loop"))

\* CustomActionNode.exec of the flow tests
CustomActionNode_exec(d) ==
    Returned(Put(d, "action", Get(d, "custom_action", "default")))

\* EchoNode.exec: leaves the store untouched and sets no action
EchoNode_exec(d) == Returned(d)

\* a node whose prep fails as ErrorNode's exec does
PrepErrorNode_prep(d) == Raised(d, Exc("RuntimeError", <<"Prep error">>))

\* a node whose post fails as ErrorNode's exec does; its exec sets the
\* action "ok" first
PostErrorNode_exec(d) == Returned(Put(d, "action", "ok"))
PostErrorNode_post(d) == Raised(d, Exc("RuntimeError", <<"Post error">>))

\* self.prep(store)
Prep(cls, d) ==
    CASE cls = "GreetingNode" -> GreetingNode_prep(d)
      [] cls = "PrepErrorNode" -> PrepErrorNode_prep(d)
      [] OTHER -> BaseNode_prep(d)

\* self.exec(store); PassNode's exec is "return super().exec(store)"
Exec(cls, d) ==
    CASE cls = "CustomActionNode" -> CustomActionNode_exec(d)
      [] cls = "ErrorNode" -> ErrorNode_exec(d)
      [] cls = "LoopNode" -> LoopNode_exec(d)
      [] cls = "GreetingNode" -> GreetingNode_exec(d)
      [] cls = "EchoNode" -> EchoNode_exec(d)
      [] cls = "PostErrorNode" -> PostErrorNode_exec(d)
      [] OTHER -> BaseNode_exec(d)

\* self.post(store)
Post(cls, d) ==
    CASE cls = "GreetingNode" -> GreetingNode_post(d)
      [] cls = "PostErrorNode" -> PostErrorNode_post(d)
      [] OTHER -> BaseNode_post(d)

\* the result of BaseNode.run: the store object, whether an exception
\* escaped run, and the phases that were invoked
RunResult(d, exc, calls) == [d |-> d, exc |-> exc, calls |-> calls]

\* an except clause that records the error and raises the exception again
NodeExcept_Reraise(cls, d, kind, e, calls) ==
    IF kind = "none"
    THEN RunResult(d,
           Exc("TypeError",
               <<"'NoneType' object does not support item assignment">>),
           calls)
    ELSE RunResult(
           Put(Put(Put(d, "action", "error"), "error", e.msg),
               "error_node", NodeName(cls)),
           e, calls)

\* the except clause of BaseNode.run, entered with the local variable store
\* bound to the store object (kind "store") or to None (kind "none")
NodeExcept(cls, d, kind, e, calls) ==
    IF kind = "none"
    THEN RunResult(d,
           Exc("TypeError",
               <<"'NoneType' object does not support item assignment">>),
           calls)
    ELSE RunResult(
           Put(Put(Put(d, "action", "error"), "error", e.msg),
               "error_node", NodeName(cls)),
           NoExc, calls)

\* store.get(...) on the local variable store when it is None
NoneHasNoGet == Exc("AttributeError",
                    <<"'NoneType' object has no attribute 'get'">>)

\* BaseNode.run from the call of post on
NodeRunPost(cls, d, calls) ==
    LET q == Post(cls, d)
        c == Append(calls, "post")
    IN  CASE q.kind = "raise" -> NodeExcept(cls, q.d, "store", q.exc, c)
          [] q.kind = "none"  -> NodeExcept(cls, q.d, "none", NoneHasNoGet, c)
          [] OTHER            -> RunResult(q.d, NoExc, c)

\* a run that still calls post after exec raised
NodeRunExec_PostAfterRaise(cls, d, calls) ==
    IF Get(d, "action", "") # "error"
    THEN LET e == Exec(cls, d)
             c == Append(calls, "exec")
         IN  CASE e.kind = "none" ->
                    NodeExcept(cls, e.d, "none", NoneHasNoGet,
                               Append(c, "post"))
               [] OTHER -> NodeRunPost(cls, e.d, c)
    ELSE NodeRunPost(cls, d, calls)

\* a run that calls exec whatever prep left in the store
NodeRunExec_Always(cls, d, calls) ==
    LET e == Exec(cls, d)
        c == Append(calls, "exec")
    IN  CASE e.kind = "raise" -> NodeExcept(cls, e.d, "store", e.exc, c)
          [] e.kind = "none"  ->
               NodeExcept(cls, e.d, "none", NoneHasNoGet, Append(c, "post"))
          [] OTHER            -> NodeRunPost(cls, e.d, c)

\* BaseNode.run from the test of the action after prep on
NodeRunExec(cls, d, calls) ==
    IF Get(d, "action", "") # "error"
    THEN LET e == Exec(cls, d)
             c == Append(calls, "exec")
         IN  CASE e.kind = "raise" -> NodeExcept(cls, e.d, "store", e.exc, c)
               [] e.kind = "none"  ->
                    \* post(None): the base post hands None back, and the
                    \* log line then calls None.get
                    NodeExcept(cls, e.d, "none", NoneHasNoGet,
                               Append(c, "post"))
               [] OTHER            -> NodeRunPost(cls, e.d, c)
    ELSE NodeRunPost(cls, d, calls)

\* BaseNode.run
NodeRun(cls, d) ==
    LET p == Prep(cls, d)
        c == <<"prep">>
    IN  CASE p.kind = "raise" -> NodeExcept(cls, p.d, "store", p.exc, c)
          [] p.kind = "none"  -> NodeExcept(cls, p.d, "none", NoneHasNoGet, c)
          [] OTHER            -> NodeRunExec(cls, p.d, c)

----------------------------------------------------------------------------
(* The flow interpreter *)

\* the edge sets a definition with keys K may have: at most MaxEdges
\* (node id, action) pairs
EdgeSets(K) == {X \in SUBSET (K \X TableKeys) : Cardinality(X) <= MaxEdges}

\* an initial_store argument: None, or a dict
NoneStore == [none |-> TRUE, d |-> EmptyDict]
DictStore(d) == [none |-> FALSE, d |-> d]

InitialStores ==
    {NoneStore,
     DictStore(EmptyDict),
     DictStore([x |-> 1, name |-> "ada", custom_action |-> "loop"]),
     DictStore([x |-> 1, custom_action |-> "error"]),
     DictStore([x |-> 1, action |-> "error", _flow_name |-> "Stale",
                _flow_path |-> <<"stale">>, _flow_steps |-> 7,
                _flow_completed |-> TRUE])}

\* the max_steps arguments
StepBudgets == -1 .. MaxSteps

\* a seeding that takes the action out of the store it starts from
SeedStore_NoAction(init, flow_name) ==
    LET s == IF init.none \/ DOMAIN init.d = {} THEN EmptyDict ELSE init.d
        t == [k \in (DOMAIN s) \ {"action"} |-> s[k]]
    IN  Put(Put(t, "_flow_name", flow_name), "_flow_path", <<>>)

\* a seeding that starts every run from an empty store
SeedStore_Fresh(init, flow_name) ==
    Put(Put(EmptyDict, "_flow_name", flow_name), "_flow_path", <<>>)

\* a seeding that keeps a path the initial store already has
SeedStore_KeepPath(init, flow_name) ==
    LET s == IF init.none \/ DOMAIN init.d = {} THEN EmptyDict ELSE init.d
    IN  Put(Put(s, "_flow_name", flow_name), "_flow_path",
            Get(s, "_flow_path", <<>>))

\* store = initial_store or {}; then the flow name and an empty path
SeedStore(init, flow_name) ==
    LET s == IF init.none \/ DOMAIN init.d = {} THEN EmptyDict ELSE init.d
    IN  Put(Put(s, "_flow_name", flow_name), "_flow_path", <<>>)

\* a loop that tests the budget only after its first iteration
LoopCondition_AtLeastOnce(cur, st, ms) == cur # "end" /\ (st = 0 \/ st < ms)

\* a while condition that goes on at the terminal id
LoopCondition_NoEnd(cur, st, ms) == st < ms

\* the while condition with the step test off by one
LoopCondition_Inclusive(cur, st, ms) == cur # "end" /\ st <= ms

\* the while condition
LoopCondition(cur, st, ms) == cur # "end" /\ st < ms

\* an except clause that names RuntimeError only
FlowCatches_RuntimeOnly(e) == e.cls = "RuntimeError"

\* "except Exception" around the node's construction and run
FlowCatches(e) == e.cls \in ExceptionClasses

\* an except clause that records the message and the node but not the action
FlowExcept_NoAction(d, e, cur) ==
    Put(Put(d, "error", e.msg), "error_node", cur)

\* the interpreter's except clause
FlowExcept(d, e, cur) ==
    Put(Put(Put(d, "action", "error"), "error", e.msg), "error_node", cur)

\* the stop test letting the default transition stand in for the error one
ErrorStops_DefaultFallback(action, transitions) ==
    /\ action = "error"
    /\ "error" \notin DOMAIN transitions
    /\ "default" \notin DOMAIN transitions

\* an error action with no error transition stops the flow
ErrorStops(action, transitions) ==
    action = "error" /\ "error" \notin DOMAIN transitions

\* a lookup that tries the default entry before the entry for the action
NextNodeId_DefaultFirst(transitions, action) ==
    Get(transitions, "default", Get(transitions, action, "end"))

\* transitions.get(action, transitions.get("default", "end"))
NextNodeId(transitions, action) ==
    Get(transitions, action, Get(transitions, "default", "end"))

\* the test after the loop with a strict comparison
BudgetExceeded_Strict(st, ms) == st > ms

\* the test after the loop
BudgetExceeded(st, ms) == st >= ms

BudgetMessage(ms) ==
    <<"Flow exceeded maximum steps (">> \o IntStr(ms) \o <<")">>

\* a completion flag that only asks whether the walk left the start node
Completed_LeftStart(cur) == cur # "start"

\* the completion flag
Completed(cur) == cur = "end"

\* the end of run without the budget branch
FinalStore_NoBudgetError(d, cur, st, ms) ==
    Put(Put(d, "_flow_steps", st), "_flow_completed", Completed(cur))

\* the end of run returning from inside the budget branch, before the step
\* count and the completion flag are recorded
FinalStore_EarlyReturn(d, cur, st, ms) ==
    IF BudgetExceeded(st, ms)
    THEN Put(Put(d, "action", "error"), "error", BudgetMessage(ms))
    ELSE Put(Put(d, "_flow_steps", st), "_flow_completed", Completed(cur))

\* the store run returns: the budget error if the test after the loop
\* holds, then the step count and the completion flag
FinalStore(d, cur, st, ms) ==
    LET s == IF BudgetExceeded(st, ms)
             THEN Put(Put(d, "action", "error"), "error", BudgetMessage(ms))
             ELSE d
    IN  Put(Put(s, "_flow_steps", st), "_flow_completed", Completed(cur))

\* a visualize that takes the transitions out of the tables as it lists them
VisualizeLeaves_Consumed(def) ==
    [n \in DOMAIN def |-> FlowNode(def[n].node_class, EmptyDict)]

\* the definition after visualize: it only reads items() of the definition
\* and of each transition table
VisualizeLeaves(def) == def

\* no visualize call was made
NoDrawing == <<>>

\* visualize: the string it returns.  The header is "Flow: <name>" and a
\* rule of len(name) + 6 "=" characters; then, for each node, a title line
\* "<id> (<class>):" and one line "  --[<action>]--> <target>" per
\* transition.  The blocks and the lines come in dict order, which the
\* unordered definition leaves open: the blocks are kept by id and the
\* transition lines as a set.
Visualize(flow_name, def) ==
    [title |-> <<"Flow: ", flow_name>>,
     rule  |-> Len(flow_name) + 6,
     nodes |-> [n \in DOMAIN def |->
                 [title |-> <<n, " (", def[n].node_class, "):">>,
                  lines |-> {<<"  --[", a, "]--> ", def[n].transitions[a]>> :
                               a \in DOMAIN def[n].transitions}]]]

\* no node is being run on its own
NodeQuiet ==
    /\ node_cls = ""
    /\ node_arg = EmptyDict
    /\ node_result = RunResult(EmptyDict, NoExc, <<>>)
    /\ node_pc = "ready"

\* no flow object is shared between runs
ConcQuiet ==
    /\ objects = <<>>
    /\ run_calls = <<>>
    /\ frames = <<>>

\* no daemon exists
DaemonQuiet ==
    /\ flows = <<>>
    /\ history = <<>>
    /\ returned = <<>>

\* the lifecycle fields as FlowDaemon.__init__ leaves them, with no
\* start() or stop() call made
LifeQuiet ==
    /\ running = FALSE
    /\ task = 0
    /\ tasks = <<>>
    /\ coros = <<>>
    /\ init_count = 0
    /\ init_failures = 0
    /\ last_event = <<>>

\* nothing but the flow is in use
OthersQuiet == NodeQuiet /\ ConcQuiet /\ DaemonQuiet /\ LifeQuiet

\* the flow definition is the caller's: any keys, any classes, at most
\* MaxEdges transitions with any targets
Init ==
    /\ \E K \in SUBSET NodeIds :
         \E E \in EdgeSets(K) :
            \E c \in [K -> NodeClasses], t \in [E -> Targets] :
               flow_definition = MakeDefinition(K, c, E, t)
    /\ name = ""
    /\ flow_state = "new"
    /\ ctor_error = <<>>
    /\ drawing = NoDrawing
    /\ pc = "idle"
    /\ initial_store = NoneStore
    /\ max_steps = 0
    /\ store = EmptyDict
    /\ current_node_id = "start"
    /\ steps = 0
    /\ exit_cause = "none"
    /\ visits = <<>>
    /\ node_store = EmptyDict
    /\ phases = <<>>
    /\ node_uses = 0
    /\ propagated = NoExc
    /\ OthersQuiet

\* BaseFlow.__init__ on an accepted definition
BaseFlowInit(arg) ==
    /\ flow_state = "new"
    /\ ValidateFlow(flow_definition) = {}
    /\ name' = FlowName(arg)
    /\ flow_state' = "constructed"
    /\ UNCHANGED <<flow_definition, ctor_error, drawing>>
    /\ UNCHANGED runVars
    /\ UNCHANGED otherVars

\* BaseFlow.__init__ raising the ValueError of _validate_flow
BaseFlowInitFails(arg) ==
    /\ flow_state = "new"
    /\ \E msg \in ValidateFlow(flow_definition) :
          /\ ctor_error' = msg
          /\ name' = FlowName(arg)
          /\ flow_state' = "rejected"
    /\ UNCHANGED <<flow_definition, drawing>>
    /\ UNCHANGED runVars
    /\ UNCHANGED otherVars

\* run, up to the loop
RunBegin(init, ms) ==
    /\ flow_state = "constructed"
    /\ pc = "idle"
    /\ initial_store' = init
    /\ max_steps' = ms
    /\ store' = SeedStore(init, name)
    /\ current_node_id' = "start"
    /\ steps' = 0
    /\ pc' = "loop"
    /\ exit_cause' = "none"
    /\ visits' = <<>>
    /\ node_store' = SeedStore(init, name)
    /\ phases' = <<>>
    /\ node_uses' = 0
    /\ propagated' = NoExc
    /\ UNCHANGED flowVars
    /\ UNCHANGED otherVars

\* one iteration of the loop of run
LoopStep ==
    /\ pc = "loop"
    /\ LoopCondition(current_node_id, steps, max_steps)
    /\ steps' = steps + 1
    /\ visits' = Append(visits, current_node_id)
    /\ node_uses' =
          IF current_node_id \notin DOMAIN flow_definition
          THEN 0
          ELSE LET cls == flow_definition[current_node_id].node_class
               IN  IF Instantiate(cls) # NoExc
                   THEN 0
                   ELSE NewNode(cls, current_node_id, visits).runs + 1
    /\ LET s1 == Put(store, "_flow_path",
                     Append(store["_flow_path"], current_node_id))
       IN  IF current_node_id \notin DOMAIN flow_definition
           THEN /\ store' = Put(Put(s1, "action", "error"), "error",
                                <<"Unknown node: ", current_node_id>>)
                /\ pc' = "exit"
                /\ exit_cause' = "unknown_node"
                /\ UNCHANGED <<current_node_id, node_store, phases, propagated>>
           ELSE LET node_config == flow_definition[current_node_id]
                    cls == node_config.node_class
                    made == Instantiate(cls)
                    r == IF made # NoExc
                         THEN RunResult(s1, made, <<>>)
                         ELSE NodeRun(cls, s1)
                IN  /\ phases' = r.calls
                    /\ IF r.exc # NoExc
                       THEN IF FlowCatches(r.exc)
                            THEN /\ store' = FlowExcept(r.d, r.exc,
                                                        current_node_id)
                                 /\ pc' = "exit"
                                 /\ exit_cause' = "exception"
                                 /\ UNCHANGED <<current_node_id, node_store,
                                                propagated>>
                            ELSE /\ propagated' = r.exc
                                 /\ pc' = "raised"
                                 /\ store' = r.d
                                 /\ exit_cause' = "raised"
                                 /\ UNCHANGED <<current_node_id, node_store>>
                       ELSE /\ store' = r.d
                            /\ node_store' = r.d
                            /\ propagated' = NoExc
                            /\ LET action == Get(r.d, "action", "default")
                               IN  IF ErrorStops(action, node_config.transitions)
                                   THEN /\ pc' = "exit"
                                        /\ exit_cause' = "node_error"
                                        /\ UNCHANGED current_node_id
                                   ELSE /\ current_node_id' =
                                             NextNodeId(node_config.transitions,
                                                        action)
                                        /\ pc' = "loop"
                                        /\ exit_cause' = "none"
    /\ UNCHANGED <<initial_store, max_steps>>
    /\ UNCHANGED flowVars
    /\ UNCHANGED otherVars

\* run, from the end of the loop to the return
RunFinish ==
    /\ \/ pc = "exit"
       \/ pc = "loop" /\ ~LoopCondition(current_node_id, steps, max_steps)
    /\ store' = FinalStore(store, current_node_id, steps, max_steps)
    /\ exit_cause' = IF pc = "exit" THEN exit_cause
                     ELSE IF current_node_id = "end" THEN "end" ELSE "budget"
    /\ pc' = "done"
    /\ UNCHANGED <<initial_store, max_steps, current_node_id, steps, visits,
                   node_store, phases, node_uses, propagated>>
    /\ UNCHANGED flowVars
    /\ UNCHANGED otherVars

\* the caller takes the returned store; the locals of the call are gone and
\* the flow object can be run again
RunReturn ==
    /\ pc = "done"
    /\ pc' = "idle"
    /\ initial_store' = NoneStore
    /\ max_steps' = 0
    /\ store' = EmptyDict
    /\ current_node_id' = "start"
    /\ steps' = 0
    /\ exit_cause' = "none"
    /\ visits' = <<>>
    /\ node_store' = EmptyDict
    /\ phases' = <<>>
    /\ node_uses' = 0
    /\ propagated' = NoExc
    /\ UNCHANGED flowVars
    /\ UNCHANGED otherVars

Next ==
    \/ \E arg \in NameArgs : BaseFlowInit(arg)
    \/ \E arg \in NameArgs : BaseFlowInitFails(arg)
    \/ \E init \in InitialStores, ms \in StepBudgets : RunBegin(init, ms)
    \/ LoopStep
    \/ RunFinish
    \/ RunReturn

Spec == Init /\ [][Next]_vars

----------------------------------------------------------------------------
(* Properties *)

\* the node whose iteration ran last, its class and its transition table
LastNodeId == visits[Len(visits)]
LastClass == flow_definition[LastNodeId].node_class
LastTable == flow_definition[LastNodeId].transitions

\* the action of a store, "default" when the key is absent
ActionOf(d) == Get(d, "action", "default")

\* the error message of a store, <<>> when the key is absent
ErrorOf(d) == Get(d, "error", <<>>)

\* the message says the step budget was exceeded
IsBudgetMessage(msg) ==
    Len(msg) >= 1 /\ msg[1] = "Flow exceeded maximum steps ("

\* a definition construction must refuse: no start key, or a transition
\* target that is neither a key nor "end"
Malformed(def) ==
    \/ "start" \notin DOMAIN def
    \/ \E n \in DOMAIN def : \E a \in DOMAIN def[n].transitions :
          /\ def[n].transitions[a] # "end"
          /\ def[n].transitions[a] \notin DOMAIN def

\* C1: a definition without a start key, or with a transition target that
\* is neither a key of the definition nor "end", never yields a flow:
\* construction raises the ValueError, and no run of it ever starts
C1_MalformedRejected ==
    Malformed(flow_definition) =>
        /\ flow_state # "constructed"
        /\ flow_state = "rejected" => ctor_error # <<>>
        /\ pc = "idle"
        /\ visits = <<>>

\* a definition with a start key was refused for a dangling target
C1_Witness ==
    /\ flow_state = "rejected"
    /\ "start" \in DOMAIN flow_definition
    /\ \E n \in DOMAIN flow_definition :
          \E a \in DOMAIN flow_definition[n].transitions :
             flow_definition[n].transitions[a] = "ghost"

\* C2: every definition that has a start key and whose transition targets
\* are all keys or "end" is accepted, whatever its shape (self-loops,
\* cycles, unreachable nodes, empty tables)
C2_WellFormedAccepted ==
    ~Malformed(flow_definition) =>
        /\ flow_state # "rejected"
        /\ ctor_error = <<>>

\* a flow was built from a definition whose start node loops back to itself
\* and whose second node is unreachable and has an empty table
C2_Witness ==
    /\ flow_state = "constructed"
    /\ DOMAIN flow_definition = {"start", "a"}
    /\ \E k \in DOMAIN flow_definition["start"].transitions :
          flow_definition["start"].transitions[k] = "start"
    /\ \A k \in DOMAIN flow_definition["start"].transitions :
          flow_definition["start"].transitions[k] # "a"
    /\ DOMAIN flow_definition["a"].transitions = {}

\* the last node raised in a phase, could not be constructed, or its run
\* raised
PhaseRaised == LastClass = "ErrorNode" /\ phases = <<"prep", "exec">>
ConstructorRaised == LastClass = "BaseNode"
NodeRunRaised == LastClass = "PassNode" /\ phases = <<"prep", "exec", "post">>

\* C3: no exception leaves run; when the last node raised in a phase, in
\* its constructor or out of its run, the returned store carries the error
\* action and an error message
C3_RunNeverRaises ==
    /\ pc # "raised"
    /\ propagated = NoExc
    /\ (pc = "done" /\ visits # <<>>
          /\ (PhaseRaised \/ ConstructorRaised \/ NodeRunRaised))
       => /\ ActionOf(store) = "error"
          /\ ErrorOf(store) # <<>>

\* a run returned after the interpreter caught what the node's run raised
C3_Witness ==
    /\ pc = "done"
    /\ visits # <<>>
    /\ NodeRunRaised
    /\ exit_cause = "exception"

\* C4: the store run returns has the flow name, the path, the step count
\* and the completion flag, on every way out of the loop
C4_ReservedKeysPresent ==
    pc = "done" =>
        /\ {"_flow_name", "_flow_path", "_flow_steps", "_flow_completed"}
              \subseteq DOMAIN store
        /\ store["_flow_name"] = name

\* a run called with None returned after the step budget ran out
C4_Witness ==
    /\ pc = "done"
    /\ initial_store = NoneStore
    /\ exit_cause = "budget"
    /\ steps >= 1

\* C5: run cannot loop forever and executes at most max_steps nodes: every
\* iteration of the loop adds one step, the step count never exceeds
\* max_steps (never leaves 0 when max_steps is negative), and the step count
\* returned is the number of nodes executed
C5_StepsBounded ==
    /\ [](/\ pc # "idle" => steps <= (IF max_steps >= 0 THEN max_steps ELSE 0)
          /\ pc # "idle" => steps = Len(visits)
          /\ pc = "done" => store["_flow_steps"] = steps)
    /\ [][pc = "loop" /\ pc' \in {"loop", "exit"} => steps' = steps + 1]_vars

\* a cyclic flow came back to start and was stopped by the budget
C5_Witness ==
    /\ pc = "done"
    /\ steps = max_steps
    /\ Len(visits) >= 3
    /\ visits[1] = "start" /\ visits[2] = "a" /\ visits[3] = "start"

\* the loop was left by a break
Breaks == {"node_error", "exception", "unknown_node"}

\* the last iteration ended with a transition to "end"
LedToEnd ==
    /\ visits # <<>>
    /\ exit_cause \notin Breaks
    /\ NextNodeId(LastTable, ActionOf(node_store)) = "end"

\* C6: the returned completion flag is true exactly when the last
\* transition of the run led to "end"; every abort returns it false
C6_CompletedIffEnd ==
    pc = "done" =>
        /\ store["_flow_completed"] = LedToEnd
        /\ exit_cause \in Breaks \cup {"budget"}
              => store["_flow_completed"] = FALSE

\* a two-step run reached "end"
C6_Witness ==
    /\ pc = "done"
    /\ store["_flow_completed"] = TRUE
    /\ steps = 2

\* C7: the step-budget error is set only when the loop ran out of steps
\* before "end": a returned store with the budget message is not completed,
\* and a run that reaches "end" on its max_steps-th step returns completed
\* with the action and error as the last node left them
C7_BudgetErrorOnlyIfNotEnded ==
    pc = "done" =>
        /\ IsBudgetMessage(ErrorOf(store)) => store["_flow_completed"] = FALSE
        /\ (exit_cause = "end" /\ steps = max_steps)
              => /\ store["_flow_completed"] = TRUE
                 /\ Has(store, "action") = Has(node_store, "action")
                 /\ ActionOf(store) = ActionOf(node_store)
                 /\ ErrorOf(store) = ErrorOf(node_store)

\* the start node emits "loop" whenever it executes, "loop" leads back to
\* start, and the store does not arrive with the error action (which would
\* keep the node from executing)
StartAlwaysLoops ==
    /\ flow_definition["start"].node_class = "LoopNode"
    /\ NextNodeId(flow_definition["start"].transitions, "loop") = "start"
    /\ ActionOf(SeedStore(initial_store, name)) # "error"

\* C8: with max_steps = N >= 1, a flow whose start node always emits an
\* action wired back to start executes start N times and returns N steps,
\* not completed, the error action and the budget message
C8_SelfLoopStopsAtBudget ==
    (pc = "done" /\ max_steps >= 1 /\ StartAlwaysLoops) =>
        /\ Len(visits) = max_steps
        /\ \A i \in 1 .. Len(visits) : visits[i] = "start"
        /\ store["_flow_steps"] = max_steps
        /\ store["_flow_completed"] = FALSE
        /\ ActionOf(store) = "error"
        /\ IsBudgetMessage(ErrorOf(store))
        /\ ErrorOf(store) = BudgetMessage(max_steps)

\* a self-looping flow returned after three steps
C8_Witness ==
    /\ pc = "done"
    /\ StartAlwaysLoops
    /\ max_steps = 3
    /\ steps = 3

\* the last node's run returned with the error action and its table has no
\* error entry
ErrorWithoutEdge ==
    /\ pc \in {"loop", "exit", "done"}
    /\ visits # <<>>
    /\ exit_cause \notin {"exception", "unknown_node"}
    /\ ActionOf(node_store) = "error"
    /\ "error" \notin DOMAIN LastTable

\* C9: when a node's run leaves the error action and the node's table has
\* no error entry, the run stops at that node: the loop is left, the current
\* node is still that node (the default entry is not followed), no further
\* node runs, and the returned store is not completed
C9_ErrorWithoutEdgeAborts ==
    /\ [](ErrorWithoutEdge =>
             /\ pc # "loop"
             /\ exit_cause = "node_error"
             /\ current_node_id = LastNodeId
             /\ pc = "done" => /\ store["_flow_completed"] = FALSE
                               /\ store["_flow_path"] = visits)
    /\ [][pc = "exit" => visits' = visits /\ pc' = "done"]_vars

\* a run was aborted at a node that has a default entry but no error entry
C9_Witness ==
    /\ pc = "done"
    /\ ErrorWithoutEdge
    /\ "default" \in DOMAIN LastTable

\* the last node's run returned with the error action and its table has an
\* error entry
ErrorWithEdge ==
    /\ pc = "loop"
    /\ visits # <<>>
    /\ ActionOf(node_store) = "error"
    /\ "error" \in DOMAIN LastTable

\* C10: an error action with an error entry is followed like any other
\* transition; a start node that raises in exec and has the edge error ->
\* "end" yields completed, the error action and the failure text as the
\* error message
C10_ErrorEdgeFollowed ==
    /\ ErrorWithEdge => current_node_id = LastTable["error"]
    /\ (/\ pc = "done"
        /\ visits = <<"start">>
        /\ LastClass = "ErrorNode"
        /\ phases = <<"prep", "exec">>
        /\ Get(LastTable, "error", "") = "end")
       => /\ store["_flow_completed"] = TRUE
          /\ ActionOf(store) = "error"
          /\ ErrorOf(store) = <<"Test error">>

\* the node id the transition rule names for a table and a store: the entry
\* for the store's action when the table has one, else the default entry
\* when the table has one, else "end"
RuleTarget(table, d) ==
    LET a == IF Has(d, "action") THEN d["action"] ELSE "default"
    IN  IF a \in DOMAIN table THEN table[a]
        ELSE IF "default" \in DOMAIN table THEN table["default"]
        ELSE "end"

\* C11: after a step that does not abort, the current node is the entry of
\* the visited node's table for the action its run left ("default" when the
\* store has no action key) when there is one, else the table's default
\* entry when there is one, else "end"; an entry for the action itself wins
\* over the default entry
C11_NextNodeByAction ==
    (pc = "loop" /\ visits # <<>>)
        => /\ current_node_id = RuleTarget(LastTable, node_store)
           /\ ActionOf(node_store) \in DOMAIN LastTable
                 => current_node_id = LastTable[ActionOf(node_store)]

\* a step followed the entry for its action although the table also has a
\* default entry that leads elsewhere
C11_Witness ==
    /\ pc = "loop"
    /\ visits # <<>>
    /\ Has(node_store, "action")
    /\ node_store["action"] # "default"
    /\ node_store["action"] \in DOMAIN LastTable
    /\ "default" \in DOMAIN LastTable
    /\ LastTable["default"] # LastTable[node_store["action"]]
    /\ current_node_id = LastTable[node_store["action"]]

----------------------------------------------------------------------------
(* One node run on its own *)

\* no run call of the single flow is in progress
RunQuiet ==
    /\ pc = "idle"
    /\ initial_store = NoneStore
    /\ max_steps = 0
    /\ store = EmptyDict
    /\ current_node_id = "start"
    /\ steps = 0
    /\ exit_cause = "none"
    /\ visits = <<>>
    /\ node_store = EmptyDict
    /\ phases = <<>>
    /\ node_uses = 0
    /\ propagated = NoExc

\* no flow is in use
FlowQuiet ==
    /\ flow_definition = EmptyDict
    /\ name = ""
    /\ flow_state = "new"
    /\ ctor_error = <<>>
    /\ drawing = NoDrawing
    /\ RunQuiet

\* the node classes that can be constructed, and two whose prep and whose
\* post raise
LifecycleClasses ==
    (NodeClasses \ {"BaseNode"}) \cup {"PrepErrorNode", "PostErrorNode"}

\* the stores handed to node.run: with or without an action, a name and a
\* custom action
NodeContexts ==
    {[k \in K |-> CASE k = "action" -> a
                    [] k = "name" -> "ada"
                    [] OTHER -> c] :
        K \in SUBSET {"action", "name", "custom_action"},
        a \in {"error", "success"},
        c \in {"error", "loop"}}

NodeInit ==
    /\ node_cls \in LifecycleClasses
    /\ node_arg \in NodeContexts
    /\ node_result = RunResult(EmptyDict, NoExc, <<>>)
    /\ node_pc = "ready"
    /\ FlowQuiet
    /\ ConcQuiet
    /\ DaemonQuiet
    /\ LifeQuiet

\* node.run(store)
NodeRunCall ==
    /\ node_pc = "ready"
    /\ node_result' = NodeRun(node_cls, node_arg)
    /\ node_pc' = IF NodeRun(node_cls, node_arg).exc = NoExc
                  THEN "returned" ELSE "raised"
    /\ UNCHANGED <<node_cls, node_arg>>
    /\ UNCHANGED <<flowVars, runVars, concVars, daemonVars, lifeVars>>

NodeNext == NodeRunCall

NodeSpec == NodeInit /\ [][NodeNext]_vars

\* the phases node.run invoked
CalledPhases == {node_result.calls[i] : i \in 1 .. Len(node_result.calls)}

\* prep returned, and the store it returned carries the error action
PrepLeftError ==
    /\ node_pc # "ready"
    /\ Prep(node_cls, node_arg).kind = "store"
    /\ Has(Prep(node_cls, node_arg).d, "action")
    /\ Prep(node_cls, node_arg).d["action"] = "error"

\* C12: in node.run, when the store prep returns carries the error action
\* (prep set it, or it was there before and prep left it), exec is not
\* invoked in that run; post still is
C12_ExecSkippedAfterPrepError ==
    PrepLeftError =>
        /\ "exec" \notin CalledPhases
        /\ node_result.calls = <<"prep", "post">>

\* a GreetingNode was run on a store without a name and without an action:
\* its prep set the error action, and the run returned
C12_Witness ==
    /\ node_pc = "returned"
    /\ node_cls = "GreetingNode"
    /\ ~Has(node_arg, "name")
    /\ ~Has(node_arg, "action")
    /\ PrepLeftError
    /\ node_result.d["error"] = <<"Missing required fields: ", "name">>

\* the orders in which one run may invoke the phases: prep first, then exec
\* unless it is skipped or prep raised, then post unless an earlier phase
\* raised; no phase twice
PhaseOrders ==
    {<<"prep">>, <<"prep", "exec">>, <<"prep", "post">>,
     <<"prep", "exec", "post">>}

\* prep raised; prep returned a store without the error action and exec
\* raised on it
PrepRaised == Prep(node_cls, node_arg).kind = "raise"
ExecRaised ==
    /\ Prep(node_cls, node_arg).kind = "store"
    /\ Get(Prep(node_cls, node_arg).d, "action", "") # "error"
    /\ Exec(node_cls, Prep(node_cls, node_arg).d).kind = "raise"

\* C26: node.run invokes prep, exec and post in that order and each at most
\* once; when prep leaves the error action exec is skipped and post is
\* still invoked; when a phase raises no later phase is invoked: the phase
\* that raised is the last one of the run
C26_PhasesInOrder ==
    node_pc # "ready" =>
        /\ node_result.calls \in PhaseOrders
        /\ PrepLeftError => node_result.calls = <<"prep", "post">>
        /\ PrepRaised => node_result.calls = <<"prep">>
        /\ ExecRaised => node_result.calls = <<"prep", "exec">>

\* an ErrorNode was run on a store without the error action: exec raised,
\* post was not invoked, and the run returned the error
C26_Witness ==
    /\ node_pc = "returned"
    /\ node_cls = "ErrorNode"
    /\ ExecRaised
    /\ node_result.calls = <<"prep", "exec">>
    /\ node_result.d["error"] = <<"Test error">>

\* the text of the failure a phase of the node raises when run on the
\* store, <<>> if no phase raises: PrepErrorNode raises in prep, ErrorNode
\* in exec unless exec is skipped, PostErrorNode in post
FailureText(cls, d) ==
    CASE cls = "PrepErrorNode" -> <<"Prep error">>
      [] cls = "ErrorNode" /\ Get(d, "action", "") # "error" -> <<"Test error">>
      [] cls = "PostErrorNode" -> <<"Post error">>
      [] OTHER -> <<>>

\* C13: node.run is a failure boundary: when prep, exec or post raises, run
\* returns instead of raising, and the store it returns carries the error
\* action, the failure's text as error, and an error_node (the node's
\* name); the other keys of the store are still there
C13_NodeRunIsFailureBoundary ==
    (node_pc # "ready" /\ FailureText(node_cls, node_arg) # <<>>)
        => /\ node_pc = "returned"
           /\ node_result.exc = NoExc
           /\ Has(node_result.d, "action")
           /\ node_result.d["action"] = "error"
           /\ Has(node_result.d, "error")
           /\ node_result.d["error"] = FailureText(node_cls, node_arg)
           /\ Has(node_result.d, "error_node")
           /\ node_result.d["error_node"] = NodeName(node_cls)
           /\ DOMAIN node_arg \subseteq DOMAIN node_result.d

\* a node whose post raised after all three phases were invoked was run,
\* and the run returned
C13_Witness ==
    /\ node_pc = "returned"
    /\ node_cls = "PostErrorNode"
    /\ node_result.calls = <<"prep", "exec", "post">>
    /\ node_result.d["error"] = <<"Post error">>

\* C14: when the last node of a run failed internally (a phase raised, the
\* constructor raised, or the node's run raised), the error_node of the
\* returned store is the flow-definition key of that node, which is the
\* last element of the path
C14_ErrorNodeIsFlowKey ==
    (/\ pc = "done"
     /\ visits # <<>>
     /\ PhaseRaised \/ ConstructorRaised \/ NodeRunRaised)
    => /\ Has(store, "error_node")
       /\ store["error_node"] = LastNodeId
       /\ store["error_node"] =
             store["_flow_path"][Len(store["_flow_path"])]

\* the store carries the error action
ErrorSignalled(d) == Has(d, "action") /\ d["action"] = "error"

\* C15: once an error is signalled in a run, by a node or by the
\* interpreter, the store's action is the error action until a transition
\* takes the run to another node or the run returns: every break leaves
\* the loop with the error action, a step that stays in the loop after its
\* node left the error action still carries it, and the end of run neither
\* clears it nor returns an aborted or over-budget store without it
C15_ErrorActionPersists ==
    /\ [](pc = "exit" => ErrorSignalled(store))
    /\ []((pc = "loop" /\ visits # <<>> /\ ErrorSignalled(node_store))
             => ErrorSignalled(store))
    /\ []((pc = "done" /\ exit_cause \in Breaks \cup {"budget"})
             => ErrorSignalled(store))
    /\ [][(pc \in {"loop", "exit"} /\ ErrorSignalled(store) /\ pc' = "done")
             => ErrorSignalled(store')]_vars

\* the interpreter caught an exception and left the loop: the error it
\* signalled is in the store, which a node had left without an action
C15_Witness ==
    /\ pc = "exit"
    /\ exit_cause = "exception"
    /\ ~Has(initial_store.d, "action")
    /\ ErrorSignalled(store)

\* C16: in the store run returns, the path is as long as the recorded step
\* count, and both equal the number of loop iterations of this run; the
\* path is the ids visited in this run, whatever reserved keys the initial
\* store brought along
C16_PathAndStepsCountVisits ==
    pc = "done" =>
        /\ Len(store["_flow_path"]) = store["_flow_steps"]
        /\ store["_flow_steps"] = Len(visits)
        /\ store["_flow_path"] = visits
        /\ steps = Len(visits)

\* a run whose initial store already had a path and a step count returned
\* after two iterations
C16_Witness ==
    /\ pc = "done"
    /\ Has(initial_store.d, "_flow_path")
    /\ initial_store.d["_flow_path"] # <<>>
    /\ Has(initial_store.d, "_flow_steps")
    /\ Len(visits) = 2
    /\ store["_flow_steps"] = 2

\* the targets a transition table can send the walk to
TableRange(table) == {table[a] : a \in DOMAIN table}

\* the node at key n has a single edge, and its run on the stores of this
\* call leaves that edge's action: a LoopNode with a loop edge, or a
\* CustomActionNode whose custom_action is the edge's action; the action is
\* not the error token, with which the next node's exec would be skipped
EmitsSoleEdge(n) ==
    LET table == flow_definition[n].transitions
        cls == flow_definition[n].node_class
    IN  /\ Cardinality(DOMAIN table) = 1
        /\ DOMAIN table # {"error"}
        /\ Get(initial_store.d, "action", "") # "error"
        /\ \/ cls = "LoopNode" /\ DOMAIN table = {"loop"}
           \/ /\ cls = "CustomActionNode"
              /\ DOMAIN table = {Get(initial_store.d, "custom_action",
                                     "default")}

\* the target of the single edge of the node at key n
SoleTarget(n) ==
    LET table == flow_definition[n].transitions
    IN  table[CHOOSE a \in DOMAIN table : TRUE]

\* the chain of single-edge nodes from n to "end", followed for at most
\* fuel nodes; "?" marks where it stops being such a chain
RECURSIVE ChainFrom(_, _)
ChainFrom(n, fuel) ==
    IF n = "end" THEN <<>>
    ELSE IF fuel = 0 \/ ~EmitsSoleEdge(n) THEN <<"?">>
    ELSE <<n>> \o ChainFrom(SoleTarget(n), fuel - 1)

\* the chain from the start node
Chain == ChainFrom("start", Cardinality(DOMAIN flow_definition))

\* the definition is a linear chain from "start" to "end" whose nodes each
\* emit the action of their single edge
IsLinearChain == \A i \in 1 .. Len(Chain) : Chain[i] # "?"

\* C27: the path is the ordered sequence of the visited node ids: it starts
\* at "start", each later element is a target in the table of the element
\* before it, the node the walk is at is the one the last element's table
\* names for the action its run left, and "end" is never in the path; a
\* linear chain whose nodes each emit the action of their single edge, run
\* with a budget of at least its length, returns the chain as path, its
\* length as step count, and completed
C27_PathIsTheWalk ==
    pc \in {"loop", "exit", "done"} =>
        LET p == store["_flow_path"]
        IN  /\ Len(p) = steps
            /\ steps >= 1 => p[1] = "start"
            /\ \A i \in 1 .. Len(p) : p[i] # "end"
            /\ \A i \in 2 .. Len(p) :
                  /\ p[i - 1] \in DOMAIN flow_definition
                  /\ p[i] \in TableRange(flow_definition[p[i - 1]].transitions)
            /\ (pc = "loop" /\ steps >= 1) =>
                  current_node_id =
                     NextNodeId(flow_definition[p[Len(p)]].transitions,
                                ActionOf(store))
            /\ (pc = "done" /\ IsLinearChain /\ Len(Chain) <= max_steps) =>
                  /\ p = Chain
                  /\ store["_flow_steps"] = Len(Chain)
                  /\ store["_flow_completed"] = TRUE

\* a chain of two nodes was run with a budget of two steps and returned
\* both nodes in order
C27_Witness ==
    /\ pc = "done"
    /\ IsLinearChain
    /\ max_steps = 2
    /\ store["_flow_path"] = <<"start", "a">>
    /\ store["_flow_steps"] = 2
    /\ store["_flow_completed"] = TRUE

\* the last node of the returned run raised in exec and its table has no
\* error entry
ExecRaisedWithoutEdge ==
    /\ pc = "done"
    /\ visits # <<>>
    /\ exit_cause = "node_error"
    /\ LastClass = "ErrorNode"
    /\ phases = <<"prep", "exec">>
    /\ "error" \notin DOMAIN LastTable

\* C28: when a node raises in exec and its table has no error entry, the
\* returned store is not completed, the run halted at that node, and the
\* action, error and error_node are the ones the node's run left: the error
\* token, the failure's text and the node's error_node, whatever max_steps
\* was, also when the failing step was the max_steps-th
C28_ExecErrorFieldsKept ==
    ExecRaisedWithoutEdge =>
        /\ store["_flow_completed"] = FALSE
        /\ current_node_id = LastNodeId
        /\ store["_flow_path"] = visits
        /\ ActionOf(store) = "error"
        /\ ErrorOf(store) = <<"Test error">>
        /\ Get(store, "error_node", "") = Get(node_store, "error_node", "")

\* the store carries the error of the run-time test for an unknown node
UnknownNodeReported(d) ==
    /\ Has(d, "error")
    /\ Len(d["error"]) >= 1
    /\ d["error"][1] = "Unknown node: "

\* C29: in every run of a flow that passed construction, the current node
\* id is at every step a key of the definition or "end", every visited id
\* is a key, and the abort for an unknown node never happens
C29_CurrentNodeIsKnown ==
    (flow_state = "constructed" /\ pc # "idle") =>
        /\ current_node_id \in (DOMAIN flow_definition) \cup {"end"}
        /\ \A i \in 1 .. Len(visits) : visits[i] \in DOMAIN flow_definition
        /\ exit_cause # "unknown_node"
        /\ ~UnknownNodeReported(store)

\* a run went from the start node to a second node and back, and is about
\* to visit the start node again
C29_Witness ==
    /\ flow_state = "constructed"
    /\ pc = "loop"
    /\ visits = <<"start", "a">>
    /\ current_node_id = "start"
    /\ steps < max_steps

EntryAction ==
    IF steps = 0 THEN Get(initial_store.d, "action", "default")
    ELSE ActionOf(store)

\* the prep of the class the current id is bound to hands back a store that
\* came in with the error action still carrying it
PrepKeepsError ==
    LET cls == flow_definition[current_node_id].node_class
        p == Prep(cls, Put(store, "action", "error"))
    IN  p.kind = "store" /\ Get(p.d, "action", "") = "error"

\* C32: the interpreter hands each node the store as the step before left
\* it, action included; a node whose store comes in with the error action
\* (reached over an error edge, or the start node of a run whose initial
\* store has it) and whose prep leaves it there is run without its exec:
\* only prep and post are invoked
C32_ErrorActionSkipsExec ==
    /\ [][(/\ pc = "loop"
           /\ steps' = steps + 1
           /\ phases' # <<>>
           /\ EntryAction = "error"
           /\ PrepKeepsError)
          => phases' = <<"prep", "post">>]_vars
    /\ []((pc = "loop" /\ visits # <<>>)
            => ActionOf(store) = ActionOf(node_store))

\* a LoopNode was reached over the error edge of a node that raised: its
\* exec was skipped and the store still carries the first node's error
C32_Witness ==
    /\ pc = "exit"
    /\ visits = <<"start", "a">>
    /\ flow_definition["start"].node_class = "ErrorNode"
    /\ LastClass = "LoopNode"
    /\ phases = <<"prep", "post">>
    /\ ActionOf(store) = "error"
    /\ ErrorOf(store) = <<"Test error">>

\* C33: whenever the store run returns is not completed, its action is the
\* error token, whatever made the run stop: a
\* node's error without an error edge, an exception the interpreter caught,
\* an unknown node, the step budget, or a max_steps of zero or less
C33_NotCompletedMeansError ==
    (pc = "done" /\ store["_flow_completed"] = FALSE) =>
        /\ Has(store, "action")
        /\ store["action"] = "error"
        /\ exit_cause \in {"node_error", "exception", "budget"}

\* a run of a node that loops back to itself stopped at the budget: the
\* node had left the loop action, and the returned action is the error
C33_Witness ==
    /\ pc = "done"
    /\ store["_flow_completed"] = FALSE
    /\ exit_cause = "budget"
    /\ max_steps = 2
    /\ ActionOf(node_store) = "loop"
    /\ store["action"] = "error"

\* C34: a run with max_steps of zero or less instantiates and runs no node:
\* the returned path is empty, the step count 0, the run not completed, the
\* action the error token and the error the message that the maximum of
\* max_steps steps was exceeded
C34_NoBudgetNoStep ==
    (pc \in {"loop", "exit", "done"} /\ max_steps <= 0) =>
        /\ visits = <<>>
        /\ phases = <<>>
        /\ node_uses = 0
        /\ steps = 0
        /\ pc # "exit"
        /\ pc = "done" =>
              /\ store["_flow_path"] = <<>>
              /\ store["_flow_steps"] = 0
              /\ store["_flow_completed"] = FALSE
              /\ ActionOf(store) = "error"
              /\ ErrorOf(store) = BudgetMessage(max_steps)
              /\ ErrorOf(store)[1] = "Flow exceeded maximum steps ("

\* a run with max_steps = -1 on a store that had an action returned
C34_Witness ==
    /\ pc = "done"
    /\ max_steps = -1
    /\ ~initial_store.none
    /\ Get(initial_store.d, "custom_action", "") = "loop"
    /\ store["_flow_steps"] = 0
    /\ ErrorOf(store) = <<"Flow exceeded maximum steps (", "-", "1", ")">>

\* the keys the interpreter writes
ReservedKeys ==
    {"_flow_name", "_flow_path", "_flow_steps", "_flow_completed",
     "action", "error", "error_node"}

\* the keys, other than the reserved ones, the phases of a class write
NodeWrites(cls) ==
    IF cls = "GreetingNode"
    THEN {"name", "greeting", "greeting_metadata"}
    ELSE {}

\* the keys written by the nodes this run visited
VisitedWrites ==
    UNION {NodeWrites(flow_definition[visits[i]].node_class) :
             i \in {j \in 1 .. Len(visits) :
                      visits[j] \in DOMAIN flow_definition}}

\* C17: the interpreter writes the reserved keys only: in the store run
\* returns, every key of the initial store that is not reserved and that no
\* visited node writes is there with the value it had, and the store has
\* no key beyond those of the initial store, the reserved keys and the keys
\* the visited nodes write
C17_OtherKeysPreserved ==
    pc = "done" =>
        /\ \A k \in DOMAIN initial_store.d \ (ReservedKeys \cup VisitedWrites) :
              /\ Has(store, k)
              /\ store[k] = initial_store.d[k]
        /\ DOMAIN store \subseteq
              DOMAIN initial_store.d \cup ReservedKeys \cup VisitedWrites

\* the flow {start: (EchoNode, {default: "end"})} was run on a store with
\* x = 1 and returned: one step, completed, x still 1
C17_Witness ==
    /\ pc = "done"
    /\ DOMAIN flow_definition = {"start"}
    /\ flow_definition["start"].node_class = "EchoNode"
    /\ DOMAIN flow_definition["start"].transitions = {"default"}
    /\ flow_definition["start"].transitions["default"] = "end"
    /\ Has(initial_store.d, "x")
    /\ initial_store.d["x"] = 1
    /\ store["_flow_path"] = <<"start">>
    /\ store["_flow_steps"] = 1
    /\ store["_flow_completed"] = TRUE
    /\ store["x"] = 1

----------------------------------------------------------------------------
(* Runs of flows built from one definition, interleaved step by step *)

\* the run calls and the flow objects
RunIds == {1, 2}
ObjIds == {1, 2}

\* the node classes of the shared definition
ConcClasses == {"CustomActionNode", "ErrorNode", "GreetingNode"}

\* the initial stores of the runs: each call gets a dict of its own
ConcStores == {s \in InitialStores : Has(s.d, "custom_action")}

\* the name arguments the two flow objects are constructed with
ObjectNameArg(o) == IF o = 1 THEN "" ELSE "ErrorTestFlow"

\* a frame that holds the locals of two calls at once
Frame_Shared(i, o) == 1

\* a frame kept in the flow object: self.store, self.current_node_id and
\* self.steps instead of locals
Frame_InObject(i, o) == o

\* where the locals of call i on flow object o live: store,
\* current_node_id and steps are local variables of run, one set per call
Frame(i, o) == i

\* one iteration of the while loop of run after steps += 1: the store, the
\* current node id, and whether the loop goes on ("loop"), was left by a
\* break ("exit") or was left by an exception ("raised")
LoopBody(def, d, cur) ==
    LET s1 == Put(d, "_flow_path", Append(d["_flow_path"], cur))
    IN  IF cur \notin DOMAIN def
        THEN [store |-> Put(Put(s1, "action", "error"), "error",
                            <<"Unknown node: ", cur>>),
              cur |-> cur, pc |-> "exit"]
        ELSE LET node_config == def[cur]
                 cls == node_config.node_class
                 made == Instantiate(cls)
                 r == IF made # NoExc
                      THEN RunResult(s1, made, <<>>)
                      ELSE NodeRun(cls, s1)
             IN  IF r.exc # NoExc
                 THEN IF FlowCatches(r.exc)
                      THEN [store |-> FlowExcept(r.d, r.exc, cur),
                            cur |-> cur, pc |-> "exit"]
                      ELSE [store |-> r.d, cur |-> cur, pc |-> "raised"]
                 ELSE LET action == Get(r.d, "action", "default")
                      IN  IF ErrorStops(action, node_config.transitions)
                          THEN [store |-> r.d, cur |-> cur, pc |-> "exit"]
                          ELSE [store |-> r.d,
                                cur |-> NextNodeId(node_config.transitions,
                                                   action),
                                pc |-> "loop"]

\* the while loop of run from a store, a current node id and a step count
RECURSIVE WhileLoop(_, _, _, _, _)
WhileLoop(def, d, cur, st, ms) ==
    IF LoopCondition(cur, st, ms)
    THEN LET b == LoopBody(def, d, cur)
         IN  IF b.pc = "loop"
             THEN WhileLoop(def, b.store, b.cur, st + 1, ms)
             ELSE [store |-> b.store, cur |-> b.cur, steps |-> st + 1]
    ELSE [store |-> d, cur |-> cur, steps |-> st]

\* run(initial_store, max_steps) of a flow with the definition and the name,
\* from its first line to its return without anything in between
RunAlone(def, flow_name, init, ms) ==
    LET w == WhileLoop(def, SeedStore(init, flow_name), "start", 0, ms)
    IN  FinalStore(w.store, w.cur, w.steps, ms)

\* a call that has not begun
IdleCall ==
    [pc |-> "idle", obj |-> 1, init |-> NoneStore, ms |-> 0,
     ret |-> EmptyDict, mixed |-> FALSE]

\* locals that hold nothing
BlankFrame == [store |-> EmptyDict, cur |-> "start", steps |-> 0]

\* the locals of a call
FrameOf(i) == frames[Frame(i, run_calls[i].obj)]

\* another call is between its first step and its return
OtherMidRun(i) ==
    \E j \in RunIds \ {i} :
       /\ run_calls[j].pc \in {"loop", "exit"}
       /\ frames[Frame(j, run_calls[j].obj)].steps >= 1

\* a valid definition, two flow objects constructed from it, no call yet
ConcInit ==
    /\ \E K \in SUBSET NodeIds :
         \E E \in EdgeSets(K) :
            \E c \in [K -> ConcClasses], t \in [E -> Targets] :
               flow_definition = MakeDefinition(K, c, E, t)
    /\ ValidateFlow(flow_definition) = {}
    /\ name = ""
    /\ flow_state = "constructed"
    /\ ctor_error = <<>>
    /\ drawing = NoDrawing
    /\ RunQuiet
    /\ objects = [o \in ObjIds |-> FlowName(ObjectNameArg(o))]
    /\ run_calls = [i \in RunIds |-> IdleCall]
    /\ frames = [i \in RunIds |-> BlankFrame]
    /\ NodeQuiet
    /\ DaemonQuiet
    /\ LifeQuiet

\* call i: objects[o].run(init, ms), up to the loop
ConcBegin(i, o, init, ms) ==
    /\ run_calls[i].pc = "idle"
    /\ run_calls' = [run_calls EXCEPT ![i] =
                       [pc |-> "loop", obj |-> o, init |-> init, ms |-> ms,
                        ret |-> EmptyDict, mixed |-> FALSE]]
    /\ frames' = [frames EXCEPT ![Frame(i, o)] =
                    [store |-> SeedStore(init, objects[o]),
                     cur |-> "start", steps |-> 0]]
    /\ UNCHANGED objects

\* call i: one iteration of the while loop
ConcStep(i) ==
    /\ run_calls[i].pc = "loop"
    /\ LoopCondition(FrameOf(i).cur, FrameOf(i).steps, run_calls[i].ms)
    /\ LET b == LoopBody(flow_definition, FrameOf(i).store, FrameOf(i).cur)
       IN  /\ frames' = [frames EXCEPT ![Frame(i, run_calls[i].obj)] =
                           [store |-> b.store, cur |-> b.cur,
                            steps |-> FrameOf(i).steps + 1]]
           /\ run_calls' = [run_calls EXCEPT
                              ![i].pc = b.pc,
                              ![i].mixed = run_calls[i].mixed \/ OtherMidRun(i)]
    /\ UNCHANGED objects

\* call i: from the end of the loop to the return
ConcFinish(i) ==
    /\ \/ run_calls[i].pc = "exit"
       \/ /\ run_calls[i].pc = "loop"
          /\ ~LoopCondition(FrameOf(i).cur, FrameOf(i).steps, run_calls[i].ms)
    /\ run_calls' = [run_calls EXCEPT
                       ![i].pc = "done",
                       ![i].ret = FinalStore(FrameOf(i).store, FrameOf(i).cur,
                                             FrameOf(i).steps,
                                             run_calls[i].ms)]
    /\ UNCHANGED <<objects, frames>>

\* the caller of call i takes the returned store
ConcReturn(i) ==
    /\ run_calls[i].pc = "done"
    /\ run_calls' = [run_calls EXCEPT ![i] = IdleCall]
    /\ UNCHANGED <<objects, frames>>

\* call 1 runs object 1 on the store with a name; call 2 chooses its
\* object and its store; both run with max_steps = MaxSteps
ConcNext ==
    /\ \/ \E init \in {s \in ConcStores : Has(s.d, "name")} :
             ConcBegin(1, 1, init, MaxSteps)
       \/ \E o \in ObjIds, init \in ConcStores :
             ConcBegin(2, o, init, MaxSteps)
       \/ \E i \in RunIds : ConcStep(i)
       \/ \E i \in RunIds : ConcFinish(i)
       \/ \E i \in RunIds : ConcReturn(i)
    /\ UNCHANGED <<flowVars, runVars, nodeVars, daemonVars, lifeVars>>

ConcSpec == ConcInit /\ [][ConcNext]_vars

\* C18: runs of flow objects interleaved step by step, each on a store of
\* its own, return what they return when run alone: the store a call
\* returns is the store an uninterrupted run of the same flow on the same
\* arguments returns, whatever the other call did in between
C18_InterleavedRunsAsAlone ==
    \A i \in RunIds :
       run_calls[i].pc = "done" =>
          run_calls[i].ret = RunAlone(flow_definition,
                                      objects[run_calls[i].obj],
                                      run_calls[i].init, run_calls[i].ms)

\* two calls on the same flow object with different stores have both
\* finished, each having made a step while the other was between its
\* first step and its return
C18_Witness ==
    /\ \A i \in RunIds : run_calls[i].pc = "done" /\ run_calls[i].mixed
    /\ run_calls[1].obj = run_calls[2].obj
    /\ run_calls[1].init # run_calls[2].init
    /\ run_calls[1].ret["_flow_steps"] >= 2
    /\ run_calls[2].ret["_flow_steps"] >= 2
    /\ run_calls[1].ret["_flow_path"] # run_calls[2].ret["_flow_path"]

\* the path, the step count, the completion flag and the action of a
\* returned store
Outcome(d) ==
    <<d["_flow_path"], d["_flow_steps"], d["_flow_completed"], ActionOf(d)>>

----------------------------------------------------------------------------
(* The daemon's registry *)

\* largest number of add_flow and remove_flow calls made on a daemon
MaxCalls == 3

\* the names flows are registered under
FlowNames == {"greeting", "other"}

\* the flow arguments of add_flow: two flow objects, and None
FlowArgs == {"flow_a", "flow_b", "None"}

\* an item of the dict self.flows
Item(n, f) == [name |-> n, flow |-> f]

\* the positions of the items of a dict with the key n
Positions(reg, n) == {i \in 1 .. Len(reg) : reg[i].name = n}

\* name in self.flows
Contains(reg, n) == Positions(reg, n) # {}

\* an assignment that rebinds self.flows to a dict with the one item
DictSet_Reset(reg, n, f) == <<Item(n, f)>>

\* a dict assignment that adds an item even when the key is there
DictSet_Append(reg, n, f) == Append(reg, Item(n, f))

\* self.flows[name] = flow: the value of an existing key is replaced where
\* it stands, a new key goes to the end
DictSet(reg, n, f) ==
    IF Contains(reg, n)
    THEN [i \in 1 .. Len(reg) |-> IF reg[i].name = n THEN Item(n, f)
                                  ELSE reg[i]]
    ELSE Append(reg, Item(n, f))

\* self.flows.get(name): the value of the key, None when it is absent
DictGet(reg, n) ==
    IF Contains(reg, n)
    THEN reg[CHOOSE i \in Positions(reg, n) :
                \A j \in Positions(reg, n) : i <= j].flow
    ELSE "None"

\* a pop that takes the last item of the dict, as popitem() does
DictPop_Last(reg, n) == SubSeq(reg, 1, Len(reg) - 1)

\* the dict after self.flows.pop(name)
DictPop(reg, n) == SelectSeq(reg, LAMBDA it : it.name # n)

\* list(self.flows.keys())
DictKeys(reg) == [i \in 1 .. Len(reg) |-> reg[i].name]

\* a call and what it returned
Call(op, n, f, value) == [op |-> op, name |-> n, flow |-> f, value |-> value]

\* FlowDaemon(config)
DaemonInit ==
    /\ flows = <<>>
    /\ history = <<>>
    /\ returned = Call("init", "", "None", "None")
    /\ FlowQuiet
    /\ NodeQuiet
    /\ ConcQuiet
    /\ LifeQuiet

\* add_flow(name, flow)
add_flow(n, f) ==
    /\ Len(history) < MaxCalls
    /\ flows' = DictSet(flows, n, f)
    /\ history' = Append(history, Call("add", n, f, "None"))
    /\ returned' = Call("add", n, f, "None")

\* remove_flow(name)
remove_flow(n) ==
    /\ Len(history) < MaxCalls
    /\ LET value == IF Contains(flows, n) THEN DictGet(flows, n) ELSE "None"
       IN  /\ flows' = IF Contains(flows, n) THEN DictPop(flows, n) ELSE flows
           /\ history' = Append(history, Call("remove", n, "None", value))
           /\ returned' = Call("remove", n, "None", value)

\* get_flow(name)
get_flow(n) ==
    /\ returned' = Call("get", n, "None", DictGet(flows, n))
    /\ UNCHANGED <<flows, history>>

\* list_flows()
list_flows ==
    /\ returned' = Call("list", "", "None", DictKeys(flows))
    /\ UNCHANGED <<flows, history>>

\* the input_data arguments of execute_flow
InputData == {EmptyDict, [x |-> 1]}

\* bool(flow): None is falsy, a flow object is truthy
Truthy(f) == f # "None"

\* what an execute_flow call did: the dict it returned, or the exception it
\* raised
Result(d) == [raised |-> FALSE, d |-> d, exc |-> NoExc]
Failure(e) == [raised |-> TRUE, d |-> EmptyDict, exc |-> e]

\* execute_flow(flow_name, input_data)
execute_flow(n, input_data) ==
    LET flow == DictGet(flows, n)
    IN  /\ returned' =
              Call("execute", n, flow,
                   IF ~Truthy(flow)
                   THEN Failure(Exc("ValueError", <<"Flow not found: ", n>>))
                   ELSE Result([flow_name |-> n,
                                input |-> input_data,
                                status |-> "completed",
                                result |-> "Mock execution result"]))
        /\ UNCHANGED <<flows, history>>

DaemonNext ==
    /\ \/ \E n \in FlowNames, f \in FlowArgs : add_flow(n, f)
       \/ \E n \in FlowNames : remove_flow(n)
       \/ \E n \in FlowNames : get_flow(n)
       \/ list_flows
       \/ \E n \in FlowNames, input_data \in InputData :
             execute_flow(n, input_data)
    /\ UNCHANGED <<flowVars, runVars, nodeVars, concVars, lifeVars>>

DaemonSpec == DaemonInit /\ [][DaemonNext]_vars

\* the add_flow and remove_flow calls made so far on the name
CallsOn(n) == {i \in 1 .. Len(history) : history[i].name = n}

\* the last add_flow or remove_flow call made on the name
LastCallOn(n) ==
    history[CHOOSE i \in CallsOn(n) : \A j \in CallsOn(n) : j <= i]

\* the name was added and not removed since
Registered(n) == CallsOn(n) # {} /\ LastCallOn(n).op = "add"

\* C20: after any sequence of add_flow and remove_flow calls, get_flow(name)
\* returns the flow of the last add_flow under the name when no
\* remove_flow of the name followed it, and None otherwise; list_flows()
\* returns the names so registered, each once; the registry has one entry
\* per registered name, so an add_flow under a registered name replaces the
\* flow and leaves the number of entries as it was
C20_RegistryFollowsCalls ==
    /\ returned.op = "get" =>
          returned.value = IF Registered(returned.name)
                           THEN LastCallOn(returned.name).flow
                           ELSE "None"
    /\ returned.op = "list" =>
          /\ {returned.value[i] : i \in 1 .. Len(returned.value)}
                = {n \in FlowNames : Registered(n)}
          /\ Len(returned.value) = Cardinality({n \in FlowNames : Registered(n)})
    /\ Len(flows) = Cardinality({n \in FlowNames : Registered(n)})

\* a name was added twice with different flows and then looked up: the
\* second flow came back and the registry has one entry
C20_Witness ==
    /\ returned.op = "get"
    /\ Len(history) = 2
    /\ history[1].op = "add"
    /\ history[2].op = "add"
    /\ history[1].name = returned.name
    /\ history[2].name = returned.name
    /\ history[1].flow = "flow_a"
    /\ history[2].flow = "flow_b"
    /\ returned.value = "flow_b"
    /\ Len(flows) = 1

\* the (name, flow) items of a registry, without their order
ItemSet(reg) == {reg[i] : i \in 1 .. Len(reg)}

\* the step is a remove_flow call
RemoveStep ==
    /\ Len(history') = Len(history) + 1
    /\ returned'.op = "remove"

\* C21: remove_flow(name) on a registered name returns the flow registered
\* under it and deletes that entry and no other; on a name that is not
\* registered, the empty registry included, it returns None and leaves
\* the registry as it was; the entries of the other names keep their
\* flows and their order
C21_RemoveDeletesOneEntry ==
    [][RemoveStep =>
         LET n == returned'.name
         IN  /\ Contains(flows, n) =>
                   /\ returned'.value = DictGet(flows, n)
                   /\ ~Contains(flows', n)
                   /\ Len(flows') = Len(flows) - 1
                   /\ ItemSet(flows') = {it \in ItemSet(flows) : it.name # n}
                   /\ DictKeys(flows') =
                         SelectSeq(DictKeys(flows), LAMBDA k : k # n)
             /\ ~Contains(flows, n) =>
                   /\ returned'.value = "None"
                   /\ flows' = flows]_vars

\* two names were registered and the first was removed: its flow came
\* back and the other entry is the whole registry
C21_Witness ==
    /\ returned.op = "remove"
    /\ Len(history) = 3
    /\ history[1].op = "add"
    /\ history[2].op = "add"
    /\ history[1].name = returned.name
    /\ history[2].name # returned.name
    /\ history[1].flow = "flow_a"
    /\ returned.value = "flow_a"
    /\ flows = <<Item(history[2].name, history[2].flow)>>

\* the calls of the history after position p are on different names
DistinctNamesAfter(p) ==
    \A i, j \in (p + 1) .. Len(history) :
       i # j => history[i].name # history[j].name

\* the names registered after the first p calls of the history
RegisteredAfter(p) ==
    {n \in FlowNames :
       /\ \E i \in 1 .. p : history[i].name = n
       /\ LET last == CHOOSE i \in 1 .. p :
                         /\ history[i].name = n
                         /\ \A j \in 1 .. p : history[j].name = n => j <= i
          IN  history[last].op = "add"}

\* the names the calls after position p add, and those they remove
AddedAfter(p) ==
    {history[i].name : i \in {j \in (p + 1) .. Len(history) :
                                history[j].op = "add"}}
RemovedAfter(p) ==
    {history[i].name : i \in {j \in (p + 1) .. Len(history) :
                                history[j].op = "remove"}}

\* C25: add_flow and remove_flow calls on different names commute: after
\* any earlier calls, a batch of calls on pairwise different names leaves
\* the registry with the names registered before and those the batch added,
\* without those the batch removed, in whatever order the batch ran; each
\* added name carries the flow it was added with
C25_DistinctNamesCommute ==
    \A p \in 0 .. Len(history) :
       DistinctNamesAfter(p) =>
          /\ {flows[i].name : i \in 1 .. Len(flows)}
                = (RegisteredAfter(p) \cup AddedAfter(p)) \ RemovedAfter(p)
          /\ \A i \in (p + 1) .. Len(history) :
                history[i].op = "add" =>
                   DictGet(flows, history[i].name) = history[i].flow

\* a name was registered, then an add_flow of another name ran before a
\* remove_flow of the first: the registry holds the added name only
C25_Witness ==
    /\ Len(history) = 3
    /\ history[1].op = "add"
    /\ history[2].op = "add"
    /\ history[3].op = "remove"
    /\ history[2].name # history[1].name
    /\ history[3].name = history[1].name
    /\ returned.op = "remove"
    /\ flows = <<Item(history[2].name, history[2].flow)>>

----------------------------------------------------------------------------
(* The daemon's lifecycle *)

\* largest number of heartbeat tasks created on a daemon
MaxTasks == 2

\* largest number of start() calls whose _initialize_flows raises
MaxFailures == 1

\* the callers of start() and stop(): coroutines of one event loop, each
\* with at most one call in flight
CallerIds == {1, 2}

\* the name and the flow the registry calls use next to start() and stop()
LifeNames == {"greeting"}
LifeFlows == {"flow_a"}

\* a task that has finished or was cancelled
Dead == {"done", "cancelled"}

\* a call that is not in flight, one suspended in _initialize_flows, and
\* one suspended in "await self._task" on task t
Idle == [pc |-> "idle", awaiting |-> 0]
InInit == [pc |-> "start_init", awaiting |-> 0]
Awaiting(t) == [pc |-> "stop_await", awaiting |-> t]

\* a call or return of start() or stop(); effective is FALSE for a call
\* that returned at its first test
Event(op, kind, c, effective) ==
    [op |-> op, kind |-> kind, caller |-> c, effective |-> effective]

\* a start() that goes on although the daemon is running
AlreadyRunning_Never(r) == FALSE

\* "if self._running: return" of start
AlreadyRunning(r) == r

\* a stop() that goes on although the daemon is not running
NotRunning_Never(r) == FALSE

\* "if not self._running: return" of stop
NotRunning(r) == ~r

\* an _initialize_flows that registers a flow
InitializeFlows_Load(reg) == DictSet(reg, "greeting", "flow_b")

\* _initialize_flows: what it leaves of the registry; the body is "pass"
InitializeFlows(reg) == reg

\* a start() that catches what _initialize_flows raises and goes on
Propagates_Swallowed(e) == FALSE

\* start() has no except clause around "await self._initialize_flows()":
\* an exception raised there leaves start()
Propagates(e) == e # NoExc

\* the exception of an _initialize_flows that fails
InitFailed == Exc("Exception", <<"Init failed">>)

\* a heartbeat loop that does not test the flag
LoopGoesOn_Always(r) == TRUE

\* "while self._running" of _run_loop
LoopGoesOn(r) == r

\* task.cancel(): a task that has not finished is asked to cancel
Cancel(st) ==
    CASE st = "pending" -> "pending_cancel"
      [] st = "sleeping" -> "sleeping_cancel"
      [] OTHER -> st

\* asyncio.create_task(self._run_loop()): the tasks with the new one
CreateTask(ts) == Append(ts, "pending")

\* FlowDaemon(config), with callers about to call start() and stop()
LifeInit ==
    /\ flows = <<>>
    /\ history = <<>>
    /\ returned = Call("init", "", "None", "None")
    /\ running = FALSE
    /\ task = 0
    /\ tasks = <<>>
    /\ coros = [c \in CallerIds |-> Idle]
    /\ init_count = 0
    /\ init_failures = 0
    /\ last_event = Event("init", "return", 0, FALSE)
    /\ FlowQuiet
    /\ NodeQuiet
    /\ ConcQuiet

\* start() on a running daemon: returns at once
StartNoop(c) ==
    /\ coros[c] = Idle
    /\ AlreadyRunning(running)
    /\ last_event' = Event("start", "return", c, FALSE)
    /\ UNCHANGED <<running, task, tasks, coros, init_count, init_failures>>
    /\ UNCHANGED daemonVars

\* start(), with an _initialize_flows that does not suspend (the one of
\* FlowDaemon): from the call to the return
StartCall(c) ==
    /\ coros[c] = Idle
    /\ ~AlreadyRunning(running)
    /\ Len(tasks) + Cardinality({d \in CallerIds : coros[d] = InInit})
          < MaxTasks
    /\ running' = TRUE
    /\ init_count' = init_count + 1
    /\ flows' = InitializeFlows(flows)
    /\ tasks' = CreateTask(tasks)
    /\ task' = Len(tasks) + 1
    /\ last_event' = Event("start", "return", c, TRUE)
    /\ UNCHANGED <<coros, init_failures, history, returned>>

\* start(), with an _initialize_flows of a subclass that awaits: from the
\* call to that await
StartSuspend(c) ==
    /\ coros[c] = Idle
    /\ ~AlreadyRunning(running)
    /\ Len(tasks) + Cardinality({d \in CallerIds : coros[d] = InInit})
          < MaxTasks
    /\ running' = TRUE
    /\ init_count' = init_count + 1
    /\ coros' = [coros EXCEPT ![c] = InInit]
    /\ last_event' = Event("start", "call", c, TRUE)
    /\ UNCHANGED <<task, tasks, init_failures>>
    /\ UNCHANGED daemonVars

\* start(), from the return of _initialize_flows to the return
StartResume(c) ==
    /\ coros[c] = InInit
    /\ flows' = InitializeFlows(flows)
    /\ tasks' = CreateTask(tasks)
    /\ task' = Len(tasks) + 1
    /\ coros' = [coros EXCEPT ![c] = Idle]
    /\ last_event' = Event("start", "return", c, TRUE)
    /\ UNCHANGED <<running, init_count, init_failures, history, returned>>

\* start(), with an _initialize_flows that raises without suspending: the
\* flag is set, and the exception leaves start() before create_task
StartFail(c) ==
    /\ coros[c] = Idle
    /\ ~AlreadyRunning(running)
    /\ init_failures < MaxFailures
    /\ running' = TRUE
    /\ init_count' = init_count + 1
    /\ init_failures' = init_failures + 1
    /\ IF Propagates(InitFailed)
       THEN /\ last_event' = Event("start", "raise", c, TRUE)
            /\ UNCHANGED <<task, tasks>>
       ELSE /\ Len(tasks)
                  + Cardinality({d \in CallerIds : coros[d] = InInit})
                  < MaxTasks
            /\ tasks' = CreateTask(tasks)
            /\ task' = Len(tasks) + 1
            /\ last_event' = Event("start", "return", c, TRUE)
    /\ UNCHANGED coros
    /\ UNCHANGED daemonVars

\* start(), when the _initialize_flows it was suspended in raises
StartResumeFail(c) ==
    /\ coros[c] = InInit
    /\ init_failures < MaxFailures
    /\ init_failures' = init_failures + 1
    /\ coros' = [coros EXCEPT ![c] = Idle]
    /\ IF Propagates(InitFailed)
       THEN /\ last_event' = Event("start", "raise", c, TRUE)
            /\ UNCHANGED <<task, tasks>>
       ELSE /\ tasks' = CreateTask(tasks)
            /\ task' = Len(tasks) + 1
            /\ last_event' = Event("start", "return", c, TRUE)
    /\ UNCHANGED <<running, init_count>>
    /\ UNCHANGED daemonVars

\* stop() on a daemon that is not running: returns at once
StopNoop(c) ==
    /\ coros[c] = Idle
    /\ NotRunning(running)
    /\ last_event' = Event("stop", "return", c, FALSE)
    /\ UNCHANGED <<running, task, tasks, coros, init_count, init_failures>>
    /\ UNCHANGED daemonVars

\* stop() on a running daemon: the flag is cleared; a task handle that is
\* set is cancelled and awaited, which suspends the call unless the task
\* is dead already
StopCall(c) ==
    /\ coros[c] = Idle
    /\ ~NotRunning(running)
    /\ running' = FALSE
    /\ IF task # 0
       THEN /\ tasks' = [tasks EXCEPT ![task] = Cancel(tasks[task])]
            /\ IF tasks[task] \in Dead
               THEN /\ task' = 0
                    /\ last_event' = Event("stop", "return", c, TRUE)
                    /\ UNCHANGED coros
               ELSE /\ coros' = [coros EXCEPT ![c] = Awaiting(task)]
                    /\ last_event' = Event("stop", "call", c, TRUE)
                    /\ UNCHANGED task
       ELSE /\ last_event' = Event("stop", "return", c, TRUE)
            /\ UNCHANGED <<task, tasks, coros>>
    /\ UNCHANGED <<init_count, init_failures>>
    /\ UNCHANGED daemonVars

\* stop(), from the end of the awaited task to the return
StopResume(c) ==
    /\ coros[c].pc = "stop_await"
    /\ tasks[coros[c].awaiting] \in Dead
    /\ task' = 0
    /\ coros' = [coros EXCEPT ![c] = Idle]
    /\ last_event' = Event("stop", "return", c, TRUE)
    /\ UNCHANGED <<running, tasks, init_count, init_failures>>
    /\ UNCHANGED daemonVars

\* _run_loop in task t, from one suspension to the next: a task cancelled
\* before its first run never enters the loop; the loop is left when the
\* flag is clear or when the sleep is cancelled
TaskStep(t) ==
    /\ t \in 1 .. Len(tasks)
    /\ tasks[t] \notin Dead
    /\ LET st == CASE tasks[t] = "pending_cancel" -> "cancelled"
                   [] tasks[t] = "sleeping_cancel" -> "done"
                   [] OTHER -> IF LoopGoesOn(running)
                               THEN "sleeping" ELSE "done"
       IN  /\ st # tasks[t]
           /\ tasks' = [tasks EXCEPT ![t] = st]
    /\ UNCHANGED <<running, task, coros, init_count, init_failures,
                   last_event>>
    /\ UNCHANGED daemonVars

LifeNext ==
    /\ \/ \E c \in CallerIds : StartNoop(c)
       \/ \E c \in CallerIds : StartCall(c)
       \/ \E c \in CallerIds : StartSuspend(c)
       \/ \E c \in CallerIds : StartResume(c)
       \/ \E c \in CallerIds : StartFail(c)
       \/ \E c \in CallerIds : StartResumeFail(c)
       \/ \E c \in CallerIds : StopNoop(c)
       \/ \E c \in CallerIds : StopCall(c)
       \/ \E c \in CallerIds : StopResume(c)
       \/ \E t \in 1 .. MaxTasks : TaskStep(t)
       \/ /\ \/ \E n \in LifeNames, f \in LifeFlows : add_flow(n, f)
             \/ \E n \in LifeNames : remove_flow(n)
             \/ \E n \in LifeNames : get_flow(n)
             \/ list_flows
          /\ UNCHANGED lifeVars
    /\ UNCHANGED <<flowVars, runVars, nodeVars, concVars>>

LifeSpec == LifeInit /\ [][LifeNext]_vars

\* an effective stop() call, one that found the daemon running, was the
\* last of the start() and stop() calls to return
StopReturned ==
    /\ last_event.op = "stop"
    /\ last_event.kind = "return"
    /\ last_event.effective

\* the heartbeat tasks that are neither finished nor cancelled
AliveTasks == {t \in 1 .. Len(tasks) : tasks[t] \notin Dead}

\* every start() and stop() call made so far has returned
NoCallInFlight == \A c \in CallerIds : coros[c] = Idle

\* C22: when a stop() call made on a running daemon has returned, no other
\* call is in flight and the running flag is clear, no heartbeat task is
\* alive and the task handle is None, however the start() and stop() calls
\* interleaved at their awaits
C22_StopLeavesNoTask ==
    (StopReturned /\ ~running /\ NoCallInFlight)
        => (AliveTasks = {} /\ task = 0)

\* the step is a call of start() or stop() by a caller with no call in
\* flight
LifeCallStep(op) ==
    /\ last_event' # last_event
    /\ last_event'.op = op
    /\ coros[last_event'.caller] = Idle

\* C23: start() on a running daemon and stop() on a daemon that is not
\* running return at once and change nothing: no flag, no task handle, no
\* task, no call in flight, no run of _initialize_flows, no registry entry
C23_RepeatedStartStopAreNoops ==
    [][/\ (LifeCallStep("start") /\ running) =>
             /\ last_event'.kind = "return"
             /\ UNCHANGED <<running, task, tasks, coros, init_count,
                            init_failures, flows>>
       /\ (LifeCallStep("stop") /\ ~running) =>
             /\ last_event'.kind = "return"
             /\ UNCHANGED <<running, task, tasks, coros, init_count,
                            init_failures, flows>>
      ]_vars

\* start() was called on a running daemon and returned: there is still one
\* heartbeat task and _initialize_flows ran once
C23_Witness ==
    /\ last_event = Event("start", "return", 2, FALSE)
    /\ running
    /\ Len(tasks) = 1
    /\ task = 1
    /\ init_count = 1

\* C24: start() and stop() leave the registry alone: no step of a start()
\* or stop() call or of a heartbeat task changes it, and whether or not the
\* daemon is running the registry holds the names added and not removed
\* since, and get_flow returns the flow last added under a registered name
C24_LifecycleKeepsRegistry ==
    /\ [][(last_event' # last_event \/ tasks' # tasks \/ coros' # coros)
             => flows' = flows]_vars
    /\ [](Len(flows) = Cardinality({n \in LifeNames : Registered(n)}))
    /\ [](returned.op = "get" =>
            returned.value = IF Registered(returned.name)
                             THEN LastCallOn(returned.name).flow
                             ELSE "None")

\* a flow was added, the daemon was started and stopped, and get_flow then
\* returned the flow
C24_Witness ==
    /\ StopReturned
    /\ ~running
    /\ init_count = 1
    /\ Len(history) = 1
    /\ history[1].op = "add"
    /\ returned.op = "get"
    /\ returned.value = "flow_a"
    /\ flows = <<Item("greeting", "flow_a")>>

----------------------------------------------------------------------------
(* Visualizing a flow between its runs *)

\* largest number of transitions in a definition that is visualized
MaxVizEdges == 1

\* the edge sets of the visualized definitions
VizEdgeSets(K) ==
    {X \in SUBSET (K \X TableKeys) : Cardinality(X) <= MaxVizEdges}

\* as Init, with definitions of at most MaxVizEdges transitions
VizInit ==
    /\ \E K \in SUBSET NodeIds :
         \E E \in VizEdgeSets(K) :
            \E c \in [K -> NodeClasses], t \in [E -> Targets] :
               flow_definition = MakeDefinition(K, c, E, t)
    /\ name = ""
    /\ flow_state = "new"
    /\ ctor_error = <<>>
    /\ drawing = NoDrawing
    /\ RunQuiet
    /\ OthersQuiet

\* flow.visualize(), called while no run of the flow is on the stack
VisualizeCall ==
    /\ flow_state = "constructed"
    /\ pc = "idle"
    /\ drawing' = Visualize(name, flow_definition)
    /\ flow_definition' = VisualizeLeaves(flow_definition)
    /\ UNCHANGED <<name, flow_state, ctor_error>>
    /\ UNCHANGED runVars
    /\ UNCHANGED otherVars

VizNext ==
    \/ \E arg \in NameArgs : BaseFlowInit(arg)
    \/ \E arg \in NameArgs : BaseFlowInitFails(arg)
    \/ \E init \in InitialStores, ms \in StepBudgets : RunBegin(init, ms)
    \/ LoopStep
    \/ RunFinish
    \/ RunReturn
    \/ VisualizeCall

VizSpec == VizInit /\ [][VizNext]_vars

\* C30: run and visualize never modify the flow definition or the flow's
\* name: after any number of runs, completed or aborted, and of visualize
\* calls the definition is the one validated at construction; what
\* visualize returns is derived from the name and the definition alone, and
\* a run made after visualize calls returns what that run returns on a flow
\* that was never visualized
C30_DefinitionNeverModified ==
    /\ [][/\ flow_definition' = flow_definition
          /\ flow_state = "constructed" =>
                (name' = name /\ flow_state' = "constructed")]_vars
    /\ [][drawing' # drawing => UNCHANGED runVars]_vars
    /\ [](drawing # NoDrawing => drawing = Visualize(name, flow_definition))
    /\ [](pc = "done" =>
            store = RunAlone(flow_definition, name, initial_store, max_steps))

\* a flow of two nodes was visualized, and a run made afterwards visited
\* both nodes and returned
C30_Witness ==
    /\ drawing # NoDrawing
    /\ DOMAIN drawing.nodes = {"start", "a"}
    /\ drawing.rule = 19
    /\ pc = "done"
    /\ visits = <<"start", "a">>
    /\ store["_flow_completed"] = TRUE

\* C40: execute_flow raises the ValueError exactly when no flow is
\* registered under the name; under a registered name, also one added with
\* None as the flow, it returns a result with the flow name and the input;
\* and it changes neither the registry nor the calls made on it
C40_ExecuteRaisesIffUnregistered ==
    /\ Len(flows) = Cardinality({n \in FlowNames : Registered(n)})
    /\ returned.op = "execute" =>
          /\ returned.value.raised <=> ~Registered(returned.name)
          /\ returned.value.raised =>
                returned.value.exc =
                   Exc("ValueError", <<"Flow not found: ", returned.name>>)
          /\ ~returned.value.raised =>
                /\ returned.value.d["flow_name"] = returned.name
                /\ returned.value.d["input"] \in InputData

\* the start() calls suspended in _initialize_flows
InInitCalls == {c \in CallerIds : coros[c] = InInit}

\* C35: a start() call that finds the daemon stopped sets the running flag
\* and invokes _initialize_flows once; the heartbeat task is created only
\* by a start() call whose _initialize_flows has returned, one task per
\* call; and a start() call on a running daemon does not invoke
\* _initialize_flows
C35_InitOnceThenTask ==
    /\ [][init_count' # init_count =>
             /\ init_count' = init_count + 1
             /\ ~running
             /\ running'
             /\ last_event'.op = "start"
             /\ last_event'.effective
             /\ coros[last_event'.caller] = Idle]_vars
    /\ [][tasks' # tasks /\ Len(tasks') # Len(tasks) =>
             /\ Len(tasks') = Len(tasks) + 1
             /\ last_event' = Event("start", "return", last_event'.caller,
                                    TRUE)
             /\ \/ coros[last_event'.caller] = InInit
                \/ /\ coros[last_event'.caller] = Idle
                   /\ init_count' = init_count + 1
             /\ coros'[last_event'.caller] = Idle
             /\ init_failures' = init_failures]_vars
    /\ [](Len(tasks) + Cardinality(InInitCalls) + init_failures = init_count)

\* a start() call on a new daemon invoked _initialize_flows once, created
\* the one heartbeat task and returned with the flag set
C35_Witness ==
    /\ last_event = Event("start", "return", 1, TRUE)
    /\ init_count = 1
    /\ init_failures = 0
    /\ running
    /\ tasks = <<"pending">>
    /\ task = 1
    /\ history = <<>>

C37_RunningMeansLiveTask ==
    (running /\ InInitCalls = {}) => (task # 0 /\ task \in AliveTasks)

\* C38: at most one heartbeat task is alive at any time, however start()
\* and stop() calls interleave at their awaits
C38_OneHeartbeatAlive == Cardinality(AliveTasks) <= 1

\* ---------------------------------------------------------------------
\* The lifecycle under a fair event loop: start() and stop() calls of the
\* callers and the steps of the heartbeat tasks.  asyncio runs every
\* ready callback and every expired timer in turn, so a task that can
\* take a step is not postponed for ever; callers are not obliged to
\* call anything.
HeartbeatStep(t) ==
    /\ TaskStep(t)
    /\ UNCHANGED <<flowVars, runVars, nodeVars, concVars>>

LiveNext ==
    \/ /\ \/ \E c \in CallerIds : StartNoop(c)
          \/ \E c \in CallerIds : StartCall(c)
          \/ \E c \in CallerIds : StartSuspend(c)
          \/ \E c \in CallerIds : StartResume(c)
          \/ \E c \in CallerIds : StartFail(c)
          \/ \E c \in CallerIds : StartResumeFail(c)
          \/ \E c \in CallerIds : StopNoop(c)
          \/ \E c \in CallerIds : StopCall(c)
          \/ \E c \in CallerIds : StopResume(c)
       /\ UNCHANGED <<flowVars, runVars, nodeVars, concVars>>
    \/ \E t \in 1 .. MaxTasks : HeartbeatStep(t)

LiveSpec ==
    /\ LifeInit
    /\ [][LiveNext]_vars
    /\ \A t \in 1 .. MaxTasks : WF_vars(HeartbeatStep(t))

\* C39: if from some point on the running flag stays clear (no later
\* start() sets it again), then from some point on no heartbeat task is
\* alive: a cancelled task ends at its next step, and a task that was not
\* cancelled ends when it next tests the flag
C39_TasksEndOnceStopped == <>[](~running) => <>[](AliveTasks = {})

\* a heartbeat task that no stop() cancelled has ended after it found the
\* flag clear: it was created by a start() that resumed from
\* _initialize_flows after a stop() had cleared the flag, and the daemon
\* still holds its handle
C39_Witness ==
    /\ ~running
    /\ NoCallInFlight
    /\ task = 1
    /\ tasks = <<"done">>

====
